---- MODULE Spec2Model ----
(***************************************************************************)
(* A model of the solitaire solver of exa_logic.py: the Stack and Game     *)
(* classes, the decoding of an encoded board (Game.exact_setup), the       *)
(* canonical hash, and the greedy queue search (Game.global_solve) with    *)
(* the replay of the solution (Game.play_game).                            *)
(*                                                                         *)
(* Strings are sequences of one-character strings, so that splitting,      *)
(* slicing, joining and the lexicographic sort of the hash are computed    *)
(* as the code computes them.  A card is a string such as <<"9","B">>.     *)
(* Stack and move indices are 0-based as in the code; the i-th stack of a  *)
(* game g is g.stacks[i + 1].                                              *)
(***************************************************************************)
EXTENDS Integers, Sequences, FiniteSets, TLC

VARIABLES
    pc,              \* position of the program: see Init
    game_hash,       \* the encoded board handed to exact_setup
    self,            \* the root Game object (global_solve's self)
    nodes_to_visit,  \* global_solve: the deque of games
    visited_nodes,   \* global_solve: the list of hashes already visited
    current,         \* global_solve: the game popped by the last iteration
    result_moves,    \* global_solve: the value returned
    exception,       \* the message of the exception raised, "" when none
    arg,             \* the arguments of a pure function under check
    ret              \* its result

vars == <<pc, game_hash, self, nodes_to_visit, visited_nodes, current,
          result_moves, exception, arg, ret>>

(***************************************************************************)
(* Strings                                                                 *)
(***************************************************************************)
\* The characters that occur, in the order of their code points.
CodePointOrder ==
    <<"+", "-", "/", "0", "1", "2", "3", "4", "5", "6", "7", "8", "9",
      "B", "C", "D", "F", "H", "L", "Q", "R", "S", "X", "[", "]">>

Ord(c) == CHOOSE k \in 1..Len(CodePointOrder) : CodePointOrder[k] = c

Digits == <<"0", "1", "2", "3", "4", "5", "6", "7", "8", "9">>

IsDigit(c) == \E k \in 1..10 : Digits[k] = c

DigitValue(c) == (CHOOSE k \in 1..10 : Digits[k] = c) - 1

\* F of the value of x, with x evaluated once: what a local variable of the
\* code holds.
With(x, F(_)) == CHOOSE y \in {F(v) : v \in {x}} : TRUE

\* The same for two values.
With2(x1, x2, F(_, _)) == CHOOSE y \in {F(v1, v2) : v1 \in {x1}, v2 \in {x2}} : TRUE

\* Python's s[a:b] for 0 <= a, on a sequence: the elements a .. b-1, clipped.
Slice(s, a, b) == SubSeq(s, a + 1, IF b < Len(s) THEN b ELSE Len(s))

\* The parts from the k-th on, one after the other.
RECURSIVE JoinFrom(_, _)
JoinFrom(parts, k) ==
    IF k > Len(parts) THEN <<>> ELSE parts[k] \o JoinFrom(parts, k + 1)

\* "".join(parts)
Join(parts) == JoinFrom(parts, 1)

\* Python's s < t on strings: lexicographic by code point, a proper prefix first.
StrLess(s, t) ==
    \E k \in 1..Len(t) :
        /\ k <= Len(s) + 1
        /\ \A m \in 1..(k - 1) : s[m] = t[m]
        /\ (k = Len(s) + 1 \/ Ord(s[k]) < Ord(t[k]))

\* The number of strings of the ascending list sorted that x is not less than:
\* they are its first ones.
NotAbove(x, sorted) ==
    Cardinality({m \in 1..Len(sorted) : ~StrLess(x, sorted[m])})

\* x put in the ascending list sorted, behind the strings equal to it.
InsertStr(x, sorted) ==
    With(NotAbove(x, sorted),
         LAMBDA n : SubSeq(sorted, 1, n) \o <<x>> \o SubSeq(sorted, n + 1, Len(sorted)))

\* The first n strings of l in ascending order.
RECURSIVE SortFirst(_, _)
SortFirst(l, n) ==
    IF n = 0 THEN <<>>
    ELSE With2(l[n], SortFirst(l, n - 1), LAMBDA x, sorted : InsertStr(x, sorted))

\* list.sort() on a list of strings, as a stable insertion sort.
SortStrings(l) == SortFirst(l, Len(l))

\* The positions at which a piece of s between two "/" starts.
PieceStarts(s) ==
    {k \in 1..Len(s) : s[k] # "/" /\ (k = 1 \/ s[k - 1] = "/")}

\* The position at which the piece that starts at k ends.
PieceEnd(s, k) ==
    CHOOSE e \in k..Len(s) :
        /\ \A m \in k..e : s[m] # "/"
        /\ (e = Len(s) \/ s[e + 1] = "/")

\* game_hash.split("/") with the empty pieces dropped: the pieces in the order
\* in which they start.
SplitSlash(s) ==
    LET starts == PieceStarts(s)
        StartOf(n) == CHOOSE k \in starts : Cardinality({m \in starts : m < k}) = n - 1
    IN  [n \in 1..Cardinality(starts) |-> SubSeq(s, StartOf(n), PieceEnd(s, StartOf(n)))]

\* int(s) succeeds: an optional sign and then digits only (the inputs hold no
\* white space and no underscore).
IntParses(s) ==
    LET body == IF s # <<>> /\ Head(s) \in {"+", "-"} THEN Tail(s) ELSE s
    IN  body # <<>> /\ \A k \in 1..Len(body) : IsDigit(body[k])

RECURSIVE DigitsValue(_, _)
DigitsValue(s, acc) ==
    IF s = <<>> THEN acc ELSE DigitsValue(Tail(s), 10 * acc + DigitValue(Head(s)))

IntValue(s) ==
    IF Head(s) = "-" THEN 0 - DigitsValue(Tail(s), 0)
    ELSE IF Head(s) = "+" THEN DigitsValue(Tail(s), 0)
    ELSE DigitsValue(s, 0)

\* str(n) of an int n >= 0.
RECURSIVE StrNat(_)
StrNat(n) ==
    IF n < 10 THEN <<Digits[n + 1]>> ELSE StrNat(n \div 10) \o <<Digits[(n % 10) + 1]>>

(***************************************************************************)
(* class Stack                                                             *)
(***************************************************************************)
face_values == {"H", "S", "C", "D"}

num_values == {"6", "7", "8", "9"}

face_cards == {<<"H", "H">>, <<"S", "S">>, <<"C", "C">>, <<"D", "D">>}

\* The value "X" that self.stack holds once the stack has collapsed.  No list
\* of cards equals it: a card of a decoded stack is a slice of 2 characters,
\* and a stack token whose first card starts with X is decoded as collapsed.
XMark == << <<"X">> >>

\* Stack.__init__
NewStack(card_type, locked) ==
    [card_type |-> card_type, locked |-> locked, stack |-> <<>>, past_cards |-> <<>>]

\* Stack.hash
StackHash(s) ==
    LET type_str == IF s.card_type = "stack" THEN "S" ELSE "F"
        card_str == IF s.stack # XMark
                    THEN Join(s.stack)
                    ELSE <<"X", "[">> \o s.past_cards \o <<"]">>
    IN  <<type_str>> \o card_str

\* Stack.compatible raises ValueError when a card does not unpack into
\* two characters.
CompatibleRaises(top, bottom) == Len(top) # 2 \/ Len(bottom) # 2

CardNumber(str) == IF str \in num_values THEN DigitValue(str) ELSE 10

\* A bug that lets any two cards of one suit match, not only face cards.
CompatibleSuitOnly(top, bottom) ==
    IF top[2] = bottom[2] THEN 1
    ELSE IF top[1] \in face_values \/ bottom[1] \in face_values THEN 0
    ELSE IF CardNumber(bottom[1]) = CardNumber(top[1]) - 1 /\ top[2] # bottom[2] THEN 1
    ELSE 0

\* Stack.compatible: can bottom be placed under (on top of) top?
compatible(top, bottom) ==
    LET top_str == top[1]
        top_suit == top[2]
        bottom_str == bottom[1]
        bottom_suit == bottom[2]
    IN  IF top_suit = bottom_suit /\ top_str \in face_values THEN 1
        ELSE IF top_str \in face_values \/ bottom_str \in face_values THEN 0
        ELSE IF CardNumber(bottom_str) = CardNumber(top_str) - 1
                /\ top_suit # bottom_suit THEN 1
        ELSE 0

\* Stack.is_move_to_legal raises iff it reaches the call of compatible with a
\* card that does not unpack.
IsMoveToLegalRaises(s, card) ==
    /\ ~s.locked
    /\ ~(s.card_type = "freecell" /\ s.stack # <<>>)
    /\ ~(s.card_type = "freecell" /\ Len(card) > 1)
    /\ s.card_type = "stack" /\ s.stack # <<>>
    /\ CompatibleRaises(s.stack[Len(s.stack)], card[1])

\* A bug that leaves out the test of lines 89-90, so that a full freecell
\* takes a card.
IsMoveToLegalFullCell(s, card) ==
    IF s.locked THEN 0
    ELSE IF s.card_type = "freecell" /\ Len(card) > 1 THEN 0
    ELSE IF s.card_type = "stack" /\ s.stack # <<>>
            /\ compatible(s.stack[Len(s.stack)], card[1]) = 0 THEN 0
    ELSE 1

\* Stack.is_move_to_legal
is_move_to_legal(s, card) ==
    IF s.locked THEN 0
    ELSE IF s.card_type = "freecell" /\ s.stack # <<>> THEN 0
    ELSE IF s.card_type = "freecell" /\ Len(card) > 1 THEN 0
    ELSE IF s.card_type = "stack" /\ s.stack # <<>>
            /\ compatible(s.stack[Len(s.stack)], card[1]) = 0 THEN 0
    ELSE 1

\* A bug that leaves out the test of lines 109-110, so that cards leave a
\* locked stack.
IsMoveFromLegalIgnoresLock(s) == IF s.stack = <<>> THEN 0 ELSE 1

\* Stack.is_move_from_legal
is_move_from_legal(s) ==
    IF s.locked THEN 0
    ELSE IF s.stack = <<>> THEN 0
    ELSE 1

\* The number of cards which_cards_moving takes: the loop of lines 147-151,
\* with i the 0-based index under test and n the cards taken so far.
RECURSIVE RunLength(_, _, _)
RunLength(stack, i, n) ==
    IF i < 0 THEN n
    ELSE IF compatible(stack[i + 1], stack[i + 2]) = 0 THEN n
    ELSE RunLength(stack, i - 1, n + 1)

\* which_cards_moving raises iff the loop meets a card that does not unpack
\* before it breaks.
RECURSIVE RunRaises(_, _)
RunRaises(stack, i) ==
    IF i < 0 THEN FALSE
    ELSE IF CompatibleRaises(stack[i + 1], stack[i + 2]) THEN TRUE
    ELSE IF compatible(stack[i + 1], stack[i + 2]) = 0 THEN FALSE
    ELSE RunRaises(stack, i - 1)

WhichCardsMovingRaises(s) == RunRaises(s.stack, Len(s.stack) - 2)

\* A bug that takes the top card alone.
WhichCardsMovingTopOnly(s) == <<s.stack[Len(s.stack)]>>

\* Stack.which_cards_moving
which_cards_moving(s) ==
    LET n == RunLength(s.stack, Len(s.stack) - 2, 1)
    IN  SubSeq(s.stack, Len(s.stack) - n + 1, Len(s.stack))

\* The collapse test of resolve_move_to, lines 129-130.
Collapses(stack) ==
    /\ Len(stack) = 4
    /\ \A k \in 1..4 : stack[k] = stack[1]
    /\ stack[1] \in face_cards

\* resolve_move_to, lines 129-135: the stack once the cards are on it.
AfterCollapse(s, stack) ==
    IF Collapses(stack)
    THEN [s EXCEPT !.locked = TRUE, !.past_cards = stack[1], !.stack = XMark]
    ELSE [s EXCEPT !.stack = stack]

\* A bug that puts down only the first card of the run.
ResolveMoveToFirstCardOnly(s, card) == AfterCollapse(s, s.stack \o <<card[1]>>)

\* Stack.resolve_move_to, once is_move_to_legal has let the move through.
resolve_move_to(s, card) == AfterCollapse(s, s.stack \o card)

\* The cards resolve_move_from takes off the stack.
CardsLeaving(s, max_stack) ==
    IF max_stack = 0 THEN which_cards_moving(s)
    ELSE Slice(s.stack, (IF Len(s.stack) > max_stack
                         THEN Len(s.stack) - max_stack ELSE 0), Len(s.stack))

\* resolve_move_from, lines 176-181: the stack that is left when card_move
\* leaves.
StackLeft(s, card_move) ==
    IF Len(card_move) = Len(s.stack)
    THEN [s EXCEPT !.stack = <<>>]
    ELSE [s EXCEPT !.stack = Slice(s.stack, 0, Len(s.stack) - Len(card_move))]

\* Stack.resolve_move_from, once is_move_from_legal has let the move through:
\* the stack that is left.
resolve_move_from(s, max_stack) ==
    With(CardsLeaving(s, max_stack), LAMBDA card_move : StackLeft(s, card_move))

\* The two patterns of a complete run of number cards.
CompleteRed ==
    << <<"0", "R">>, <<"9", "B">>, <<"8", "R">>, <<"7", "B">>, <<"6", "R">> >>

CompleteBlack ==
    << <<"0", "B">>, <<"9", "R">>, <<"8", "B">>, <<"7", "R">>, <<"6", "B">> >>

\* A bug that knows the collapsed stacks only.
StackIsCompleteCollapsedOnly(s) == IF s.stack = XMark THEN 1 ELSE 0

\* Stack.is_complete
StackIsComplete(s) ==
    IF s.stack = XMark THEN 1
    ELSE IF s.stack = CompleteRed \/ s.stack = CompleteBlack THEN 1
    ELSE 0

(***************************************************************************)
(* class Game                                                              *)
(***************************************************************************)
\* Game.__init__
NewGame(card_stacks, freecells, max_depth) ==
    [stacks |-> [k \in 1..(card_stacks + freecells) |->
                    IF k <= card_stacks THEN NewStack("stack", FALSE)
                    ELSE NewStack("freecell", FALSE)],
     depth |-> 0,
     max_depth |-> max_depth,
     move_history |-> <<>>,
     score |-> 0]

\* The list stack_chunks of Game.hash before it is sorted.
StackChunks(stacks) ==
    [k \in 1..Len(stacks) |-> StackHash(stacks[k]) \o <<"/">>]

\* A bug that leaves out stack_chunks.sort().
HashUnsorted(stacks) == Join(StackChunks(stacks))

\* Game.hash, of the stacks of a game.
Hash(stacks) ==
    With(StackChunks(stacks),
         LAMBDA stack_chunks : With(SortStrings(stack_chunks), LAMBDA sorted : Join(sorted)))

\* exact_setup: int(stack[3:5]) raises ValueError for this stack token.
TokenRaises(stack) ==
    /\ Len(stack) # 1
    /\ stack[2] = "X"
    /\ ~IntParses(Slice(stack, 3, 5))

\* exact_setup: the Stack built from one token that does not raise.  past_cards
\* is kept as the text str() gives of the int that was parsed, the only way
\* the program reads it.
DecodeStack(stack) ==
    LET stack_type == IF stack[1] = "S" THEN "stack" ELSE "freecell"
        rest == Slice(stack, 1, Len(stack))
    IN  IF Len(stack) = 1
        THEN NewStack(stack_type, FALSE)
        ELSE IF stack[2] # "X"
        THEN [NewStack(stack_type, FALSE) EXCEPT
                !.stack = [k \in 1..((Len(rest) + 1) \div 2) |->
                              Slice(stack, 1 + 2 * (k - 1), 1 + 2 * (k - 1) + 2)]]
        ELSE LET past_card == IntValue(Slice(stack, 3, 5))
             IN  [NewStack(stack_type, TRUE) EXCEPT
                    !.stack = XMark,
                    !.past_cards = IF past_card > -1 THEN StrNat(past_card) ELSE <<>>]

\* exact_setup raises (ValueError) on this game_hash.
ExactSetupRaises(hash) ==
    LET stack_hashes == SplitSlash(hash)
    IN  \E k \in 1..Len(stack_hashes) : TokenRaises(stack_hashes[k])

\* Game.exact_setup: the stack set that replaces self.stacks.
exact_setup(hash) ==
    LET stack_hashes == SplitSlash(hash)
    IN  [k \in 1..Len(stack_hashes) |-> DecodeStack(stack_hashes[k])]

\* get_score: num_cards_trapped, the scan of lines 336-338 from index j down.
RECURSIVE CardsTrapped(_, _)
CardsTrapped(stack, j) ==
    IF j < 0 THEN 0
    ELSE IF compatible(stack[j + 1], stack[j + 2]) = 0 THEN j + 1
    ELSE CardsTrapped(stack, j - 1)

\* get_score: the loop over the stacks from the k-th on, score so far.
RECURSIVE ScoreLoop(_, _, _)
ScoreLoop(stacks, k, score) ==
    IF k > Len(stacks) THEN score
    ELSE LET i == stacks[k]
         IN  IF StackIsComplete(i) = 1
             THEN ScoreLoop(stacks, k + 1, score + 20)
             ELSE IF i.card_type = "stack" /\ i.stack = <<>>
             THEN ScoreLoop(stacks, k + 1, score + 10)
             ELSE IF i.card_type = "stack" /\ i.stack # <<>>
             THEN IF Len(i.stack) = 5
                     /\ (i.stack = CompleteRed \/ i.stack = CompleteBlack)
                  THEN ScoreLoop(stacks, k + 1, 10)
                  ELSE ScoreLoop(stacks, k + 1,
                                 score + 5 - CardsTrapped(i.stack, Len(i.stack) - 2))
             ELSE ScoreLoop(stacks, k + 1, score)

\* get_score raises iff the scan of some stack meets a card that does not
\* unpack.
ScoreRaises(stacks) ==
    \E k \in 1..Len(stacks) :
        /\ StackIsComplete(stacks[k]) = 0
        /\ stacks[k].card_type = "stack"
        /\ stacks[k].stack # <<>>
        /\ RunRaises(stacks[k].stack, Len(stacks[k].stack) - 2)

\* Game.get_score: the value returned.
get_score(g, override) ==
    IF g.score # 0 /\ override = 0 THEN g.score
    ELSE ScoreLoop(g.stacks, 1, 0)

RECURSIVE SumComplete(_, _)
SumComplete(stacks, k) ==
    IF k > Len(stacks) THEN 0
    ELSE StackIsComplete(stacks[k]) + SumComplete(stacks, k + 1)

\* The number of complete stacks that makes a game complete.
RequiredComplete == 8

\* Game.is_complete, of the stacks of a game.
is_complete(stacks) == SumComplete(stacks, 1) = RequiredComplete

\* A bug that leaves out the test of lines 378-379, so that the last move can be
\* undone.
MoveIsValidWithUndo(g, i, j) ==
    /\ j # i
    /\ is_move_from_legal(g.stacks[j + 1]) = 1
    /\ \E cards_moving \in {which_cards_moving(g.stacks[j + 1])} :
           is_move_to_legal(g.stacks[i + 1], <<cards_moving[1]>>) = 1

\* enumerate_moves: the test of lines 373-385 for destination i and origin j.
MoveIsValid(g, i, j) ==
    /\ j # i
    /\ ~(g.move_history # <<>> /\ g.move_history[Len(g.move_history)] = <<i, j>>)
    /\ is_move_from_legal(g.stacks[j + 1]) = 1
    /\ \E cards_moving \in {which_cards_moving(g.stacks[j + 1])} :
           is_move_to_legal(g.stacks[i + 1], <<cards_moving[1]>>) = 1

\* enumerate_moves raises (ValueError) iff a pair it tests meets a card that
\* does not unpack.
EnumerateMovesRaises(g) ==
    \E i, j \in 0..(Len(g.stacks) - 1) :
        /\ ~g.stacks[i + 1].locked
        /\ j # i
        /\ ~(g.move_history # <<>> /\ g.move_history[Len(g.move_history)] = <<i, j>>)
        /\ is_move_from_legal(g.stacks[j + 1]) = 1
        /\ \/ WhichCardsMovingRaises(g.stacks[j + 1])
           \/ \E cards_moving \in {which_cards_moving(g.stacks[j + 1])} :
                  IsMoveToLegalRaises(g.stacks[i + 1], <<cards_moving[1]>>)

\* All pairs (i, j) of 0-based indices below n, i in the outer loop.
IndexPairs(n) == [k \in 1..(n * n) |-> <<(k - 1) \div n, (k - 1) % n>>]

\* valid_moves.append((j, i)) for each pair (i, j) kept.
AsMoves(kept) == [k \in 1..Len(kept) |-> <<kept[k][2], kept[k][1]>>]

\* Game.enumerate_moves: the moves (j, i), the destinations i in the outer
\* loop and the origins j in the inner one.
enumerate_moves(g) ==
    LET Keep(p) == ~g.stacks[p[1] + 1].locked /\ MoveIsValid(g, p[1], p[2])
    IN  With(SelectSeq(IndexPairs(Len(g.stacks)), Keep), LAMBDA kept : AsMoves(kept))

\* What one move leaves: the stacks, the cards moved, the two offsets that
\* play_game reports, and the exception raised, "" when none.
MoveOutcome(stacks, cards_move, y_offset_pre, y_offset_post, exc) ==
    [stacks |-> stacks, cards_move |-> cards_move, y_offset_pre |-> y_offset_pre,
     y_offset_post |-> y_offset_post, exception |-> exc]

\* The second step of a move, resolve_move_to on the destination j (solve,
\* line 555; play_game, lines 413-423), on the stacks that the first step left.
ResolveTo(stacks, i, j, cards_move) ==
    MoveOutcome(
        IF is_move_to_legal(stacks[j + 1], cards_move) = 0 THEN stacks
        ELSE [stacks EXCEPT ![j + 1] = resolve_move_to(stacks[j + 1], cards_move)],
        cards_move,
        Len(stacks[i + 1].stack) - Len(cards_move),
        IF Len(stacks[j + 1].stack) - 1 > 0 THEN Len(stacks[j + 1].stack) - 1 ELSE 0,
        IF is_move_to_legal(stacks[j + 1], cards_move) = 0
        THEN "Trying to force illegal move" ELSE "")

\* The first step of a move, resolve_move_from on the origin i: of one card
\* when the destination j is a freecell (solve, lines 549-552; play_game,
\* lines 408-411).
ResolveFrom(stacks, i, j, max_stack) ==
    IF is_move_from_legal(stacks[i + 1]) = 0
    THEN MoveOutcome(stacks, <<>>, 0, 0, "Trying to force illegal move")
    ELSE With2([stacks EXCEPT ![i + 1] = resolve_move_from(stacks[i + 1], max_stack)],
               CardsLeaving(stacks[i + 1], max_stack),
               LAMBDA left, cards_move : ResolveTo(left, i, j, cards_move))

\* A bug that takes the whole run off the origin whatever the destination.
ResolveMoveWholeRun(stacks, move) == ResolveFrom(stacks, move[1], move[2], 0)

\* One move (origin, destination) as solve and play_game both resolve it.
ResolveMove(stacks, move) ==
    ResolveFrom(stacks, move[1], move[2],
                IF stacks[move[2] + 1].card_type = "freecell" THEN 1 ELSE 0)

PlayOutcome(stacks, fixed_moves, exc) ==
    [stacks |-> stacks, fixed_moves |-> fixed_moves, exception |-> exc]

\* play_game: the loop over the moves from the k-th on; r is what the k-th
\* move leaves.
RECURSIVE PlayLoop(_, _, _, _)
PlayStep(moves, k, fixed_moves, r) ==
    IF r.exception # ""
    THEN PlayOutcome(r.stacks, fixed_moves, r.exception)
    ELSE With(Append(fixed_moves, <<moves[k][1], r.y_offset_pre,
                                    moves[k][2], r.y_offset_post>>),
              LAMBDA fixed : PlayLoop(r.stacks, moves, k + 1, fixed))

PlayLoop(stacks, moves, k, fixed_moves) ==
    IF k > Len(moves)
    THEN PlayOutcome(stacks, fixed_moves, "")
    ELSE With(ResolveMove(stacks, moves[k]), LAMBDA r : PlayStep(moves, k, fixed_moves, r))

\* Game.play_game on the stacks of self: the stacks it leaves, the list it
\* returns and the exception it raises, "" when none.
play_game(stacks, moves) ==
    IF moves = <<>>
    THEN PlayOutcome(stacks, <<>>, "No moves for successful game solve?")
    ELSE PlayLoop(stacks, moves, 1, <<>>)

\* A bug that leaves the child at the depth of its parent.
ChildDepthKept(g, move, stacks) ==
    [g EXCEPT !.stacks = stacks,
              !.move_history = Append(g.move_history, move),
              !.score = ScoreLoop(stacks, 1, 0)]

\* A bug that records the move as (destination, origin).
ChildMoveSwapped(g, move, stacks) ==
    [g EXCEPT !.stacks = stacks,
              !.depth = g.depth + 1,
              !.move_history = Append(g.move_history, <<move[2], move[1]>>),
              !.score = ScoreLoop(stacks, 1, 0)]

\* solve, lines 545-562: the child new_game of a move that left these stacks.
Child(g, move, stacks) ==
    [g EXCEPT !.stacks = stacks,
              !.depth = g.depth + 1,
              !.move_history = Append(g.move_history, move),
              !.score = ScoreLoop(stacks, 1, 0)]

SolveOutcome(kind, results, exc) ==
    [kind |-> kind, results |-> results, exception |-> exc]

\* solve: the loop over valid_moves from the k-th on; r is what the k-th move
\* leaves.
RECURSIVE SolveLoop(_, _, _, _)
SolveStep(g, valid_moves, k, results, r) ==
    IF r.exception # ""
    THEN SolveOutcome("raise", <<>>, r.exception)
    ELSE IF ScoreRaises(r.stacks)
    THEN SolveOutcome("raise", <<>>, "ValueError")
    ELSE With(Append(results, Child(g, valid_moves[k], r.stacks)),
              LAMBDA appended : SolveLoop(g, valid_moves, k + 1, appended))

\* solve, lines 564-575: what solve does with the children it has built.
SolveEnd(g, results) ==
    IF g.depth = 0 /\ results = <<>>
    THEN SolveOutcome("raise", <<>>, "Impossible to solve game")
    ELSE IF results = <<>>
    THEN SolveOutcome("None", <<>>, "")
    ELSE SolveOutcome("results", results, "")

SolveLoop(g, valid_moves, k, results) ==
    IF k > Len(valid_moves)
    THEN SolveEnd(g, results)
    ELSE With(ResolveMove(g.stacks, valid_moves[k]),
              LAMBDA r : SolveStep(g, valid_moves, k, results, r))

\* A bug that stops one level early.
DepthReached(g) == g.depth >= g.max_depth

\* solve, line 525: the soft cap on the depth.
DepthExceeded(g) == g.depth > g.max_depth

\* solve, lines 536-575, with valid_moves what enumerate_moves returned.
SolveMoves(g, valid_moves) ==
    IF Len(valid_moves) = 0 /\ g.depth > 0
    THEN SolveOutcome("None", <<>>, "")
    ELSE SolveLoop(g, valid_moves, 1, <<>>)

\* Game.solve: kind is "None", "results" or "raise".  is_dead (line 533) and
\* line 538 call enumerate_moves on the same game, and it returns the same
\* list.
solve(g) ==
    IF DepthExceeded(g)
    THEN SolveOutcome("None", <<>>, "")
    ELSE IF is_complete(g.stacks)
    THEN SolveOutcome("raise", <<>>, "Trying to solve complete game.")
    ELSE IF EnumerateMovesRaises(g)
    THEN SolveOutcome("raise", <<>>, "ValueError")
    ELSE With(enumerate_moves(g), LAMBDA valid_moves : SolveMoves(g, valid_moves))

\* The place a stable sort by descending key gives the k-th of the keys: behind
\* every greater key and behind the equal keys that came before it.
PlaceOf(keys, k) ==
    Cardinality({m \in 1..Len(keys) : keys[m] > keys[k]})
    + Cardinality({m \in 1..(k - 1) : keys[m] = keys[k]}) + 1

\* The list l with its k-th element in place r for each pair (r, k) of places.
PutInPlace(l, places) ==
    [r \in 1..Len(l) |-> l[CHOOSE k \in 1..Len(l) : <<r, k>> \in places]]

StableSortDescending(l, keys) ==
    With({<<PlaceOf(keys, k), k>> : k \in 1..Len(keys)},
         LAMBDA places : PutInPlace(l, places))

\* A bug that leaves the deque as extend() left it.
SortNodesKeeps(l) == l

\* sorted(nodes_to_visit, key=lambda k: -k.get_score()): a stable sort.
SortNodes(l) ==
    With([k \in 1..Len(l) |-> get_score(l[k], 0)],
         LAMBDA keys : StableSortDescending(l, keys))

\* A bug that reads the head of the deque and leaves it there.
PopLeftKeeps(nodes) == nodes

\* deque.popleft(): the deque that is left.
PopLeft(nodes) == Tail(nodes)

\* A bug that finds no hash in visited_nodes.
VisitedNever(hash, visited) == FALSE

\* hash in visited_nodes
Visited(hash, visited) == \E k \in 1..Len(visited) : visited[k] = hash

(***************************************************************************)
(* The encoded boards handed to the program                                *)
(***************************************************************************)
\* A run of four number cards, an empty stack and an empty freecell.
\* S9B8R7B6R/S/F/
HashRunAndReceptors ==
    <<"S", "9", "B", "8", "R", "7", "B", "6", "R", "/", "S", "/", "F", "/">>

\* Two short runs and an empty freecell.
\* S9B8R/S7B6R/F/
HashTwoRuns ==
    <<"S", "9", "B", "8", "R", "/", "S", "7", "B", "6", "R", "/", "F", "/">>

\* A board with no legal move.
\* S9B/S9R/F6B/
HashNoMoves ==
    <<"S", "9", "B", "/", "S", "9", "R", "/", "F", "6", "B", "/">>

\* A stack of four equal face cards that was built, not moved, together.
\* SHHHHHHHH/S/F/
HashFourFaces ==
    <<"S", "H", "H", "H", "H", "H", "H", "H", "H", "/", "S", "/", "F", "/">>

\* Four equal face cards under a number card.
\* SHHHHHHHH9B/S/F/
HashFacesUnderCard ==
    <<"S", "H", "H", "H", "H", "H", "H", "H", "H", "9", "B", "/", "S", "/", "F", "/">>

\* A card under a broken run: 6B does not go on 8R.
\* S9B8R6B/S7B/F/
HashTrappedCards ==
    <<"S", "9", "B", "8", "R", "6", "B", "/", "S", "7", "B", "/", "F", "/">>

\* The whole deck, two moves from the end: 6R goes on 7B, and the run 8R 7B 6R
\* goes back on 9B, the stack that 6R came from.
\* SX[11]/SX[12]/SX[13]/SX[14]/S0R9B8R7B6R/S0B9R8B7R6B/S0B9R8B7R6B/S0R9B6R/S8R7B/F/
HashRunGoesBack ==
    <<"S", "X", "[", "1", "1", "]", "/", "S", "X", "[", "1", "2", "]", "/",
      "S", "X", "[", "1", "3", "]", "/", "S", "X", "[", "1", "4", "]", "/",
      "S", "0", "R", "9", "B", "8", "R", "7", "B", "6", "R", "/", "S", "0",
      "B", "9", "R", "8", "B", "7", "R", "6", "B", "/", "S", "0", "B", "9",
      "R", "8", "B", "7", "R", "6", "B", "/", "S", "0", "R", "9", "B", "6",
      "R", "/", "S", "8", "R", "7", "B", "/", "F", "/">>

\* The whole deck, five moves from the end: two orders of the first two moves
\* give the same board, 8B 7R 6B beside 9R.
\* SX[11]/SX[12]/SX[13]/SX[14]/S0R9B8R7B6R/S0B9R8B7R6B/S9R7R/S0R9B8R7B6R6B/S8B/F0B/
HashTwoWays ==
    <<"S", "X", "[", "1", "1", "]", "/", "S", "X", "[", "1", "2", "]", "/",
      "S", "X", "[", "1", "3", "]", "/", "S", "X", "[", "1", "4", "]", "/",
      "S", "0", "R", "9", "B", "8", "R", "7", "B", "6", "R", "/", "S", "0",
      "B", "9", "R", "8", "B", "7", "R", "6", "B", "/", "S", "9", "R", "7",
      "R", "/", "S", "0", "R", "9", "B", "8", "R", "7", "B", "6", "R", "6",
      "B", "/", "S", "8", "B", "/", "F", "0", "B", "/">>

\* The whole deck, four moves from the end.
\* SHHHHHHHH/SSSSSSSSS/SCCCCCCCC/SDDDDDDDD/S0R9B8R7B6R/S0B9R8B7R6B/S0R9B8R7B6R/S0B9R8B7R6B/S/F/
HashLateGame ==
    <<"S", "H", "H", "H", "H", "H", "H", "H", "H", "/", "S", "S", "S", "S",
      "S", "S", "S", "S", "S", "/", "S", "C", "C", "C", "C", "C", "C", "C",
      "C", "/", "S", "D", "D", "D", "D", "D", "D", "D", "D", "/", "S", "0",
      "R", "9", "B", "8", "R", "7", "B", "6", "R", "/", "S", "0", "B", "9",
      "R", "8", "B", "7", "R", "6", "B", "/", "S", "0", "R", "9", "B", "8",
      "R", "7", "B", "6", "R", "/", "S", "0", "B", "9", "R", "8", "B", "7",
      "R", "6", "B", "/", "S", "/", "F", "/">>

\* The whole deck, five moves from the end, the freecell in use.
\* SHHHH/SHHHH/SSSSSSSSS/SCCCCCCCC/SDDDDDDDD/S0R9B8R7B6R/S0B9R8B7R6B/S0R9B8R7B/S0B9R8B7R6B/F6R/
HashLateGameFreecell ==
    <<"S", "H", "H", "H", "H", "/", "S", "H", "H", "H", "H", "/", "S", "S",
      "S", "S", "S", "S", "S", "S", "S", "/", "S", "C", "C", "C", "C", "C",
      "C", "C", "C", "/", "S", "D", "D", "D", "D", "D", "D", "D", "D", "/",
      "S", "0", "R", "9", "B", "8", "R", "7", "B", "6", "R", "/", "S", "0",
      "B", "9", "R", "8", "B", "7", "R", "6", "B", "/", "S", "0", "R", "9",
      "B", "8", "R", "7", "B", "/", "S", "0", "B", "9", "R", "8", "B", "7",
      "R", "6", "B", "/", "F", "6", "R", "/">>

\* A complete board: four collapsed stacks and the four complete runs.
\* SX[11]/SX[12]/SX[13]/SX[14]/S0R9B8R7B6R/S0B9R8B7R6B/S0R9B8R7B6R/S0B9R8B7R6B/S/F/
HashComplete ==
    <<"S", "X", "[", "1", "1", "]", "/", "S", "X", "[", "1", "2", "]", "/",
      "S", "X", "[", "1", "3", "]", "/", "S", "X", "[", "1", "4", "]", "/",
      "S", "0", "R", "9", "B", "8", "R", "7", "B", "6", "R", "/", "S", "0",
      "B", "9", "R", "8", "B", "7", "R", "6", "B", "/", "S", "0", "R", "9",
      "B", "8", "R", "7", "B", "6", "R", "/", "S", "0", "B", "9", "R", "8",
      "B", "7", "R", "6", "B", "/", "S", "/", "F", "/">>

\* Malformed: Q is no capacity-class marker.
\* Q9B/S/
HashUnknownMarker ==
    <<"Q", "9", "B", "/", "S", "/">>

\* Malformed: the second card code has one symbol.
\* S9B8/S/F/
HashOddCard ==
    <<"S", "9", "B", "8", "/", "S", "/", "F", "/">>

\* The collapsed form that Stack.hash writes, which int() cannot parse.
\* SX[HH]/S9B/S/F/
HashFaceRank ==
    <<"S", "X", "[", "H", "H", "]", "/", "S", "9", "B", "/", "S", "/", "F",
      "/">>

WellFormedHashes ==
    {HashRunAndReceptors, HashTwoRuns, HashNoMoves, HashFourFaces, HashFacesUnderCard,
     HashTrappedCards, HashRunGoesBack, HashTwoWays, HashLateGame,
     HashLateGameFreecell, HashComplete}

MalformedHashes == {HashUnknownMarker, HashOddCard, HashFaceRank}

GameHashes == WellFormedHashes \cup MalformedHashes

\* The largest max_depth tried besides the default.
MaxDepthBound == 3

\* Game.__init__'s defaults.
DefaultCardStacks == 9

DefaultFreecells == 1

DefaultMaxDepth == 100

MaxDepths == 0..MaxDepthBound \cup {DefaultMaxDepth}

(***************************************************************************)
(* The program: Game(max_depth), exact_setup(game_hash), global_solve()    *)
(***************************************************************************)
Init ==
    /\ pc = "constructed"
    /\ game_hash \in GameHashes
    /\ \E max_depth \in MaxDepths :
          self = NewGame(DefaultCardStacks, DefaultFreecells, max_depth)
    /\ nodes_to_visit = <<>>
    /\ visited_nodes = <<>>
    /\ current = <<>>
    /\ result_moves = <<>>
    /\ exception = ""
    /\ arg = <<>>
    /\ ret = <<>>

\* exact_setup raises before it has assigned self.stacks.
ExactSetupRaise ==
    /\ pc = "constructed"
    /\ ExactSetupRaises(game_hash)
    /\ pc' = "raised"
    /\ exception' = "ValueError"
    /\ UNCHANGED <<game_hash, self, nodes_to_visit, visited_nodes, current,
                   result_moves, arg, ret>>

\* exact_setup overwrites the game's stack set.
ExactSetup ==
    /\ pc = "constructed"
    /\ ~ExactSetupRaises(game_hash)
    /\ self' = [self EXCEPT !.stacks = exact_setup(game_hash)]
    /\ pc' = "ready"
    /\ UNCHANGED <<game_hash, nodes_to_visit, visited_nodes, current,
                   result_moves, exception, arg, ret>>

\* global_solve up to its loop, lines 452-469.
GlobalSolveBegin ==
    /\ pc = "ready"
    /\ self.depth = 0
    /\ nodes_to_visit' = <<self>>
    /\ visited_nodes' = <<>>
    /\ pc' = "solving"
    /\ UNCHANGED <<game_hash, self, current, result_moves, exception, arg, ret>>

\* One iteration that finds the popped game visited, lines 473-478.
LoopVisited ==
    /\ pc = "solving"
    /\ nodes_to_visit # <<>>
    /\ \E hash \in {Hash(Head(nodes_to_visit).stacks)} : Visited(hash, visited_nodes)
    /\ current' = <<Head(nodes_to_visit)>>
    /\ nodes_to_visit' = PopLeft(nodes_to_visit)
    /\ UNCHANGED <<pc, game_hash, self, visited_nodes, result_moves, exception,
                   arg, ret>>

\* global_solve, lines 498-501 and 519: play_game has run on self.
Played(r) ==
    /\ self' = [self EXCEPT !.stacks = r.stacks]
    /\ exception' = r.exception
    /\ IF r.exception # ""
       THEN pc' = "raised" /\ result_moves' = result_moves
       ELSE pc' = "solved" /\ result_moves' = r.fixed_moves

\* One iteration that finds the popped game complete and replays its moves
\* on self, lines 473-501 and 519.
LoopComplete ==
    /\ pc = "solving"
    /\ nodes_to_visit # <<>>
    /\ \E hash \in {Hash(Head(nodes_to_visit).stacks)} :
          /\ ~Visited(hash, visited_nodes)
          /\ visited_nodes' = Append(visited_nodes, hash)
    /\ is_complete(Head(nodes_to_visit).stacks)
    /\ current' = <<Head(nodes_to_visit)>>
    /\ nodes_to_visit' = PopLeft(nodes_to_visit)
    /\ \E r \in {play_game(self.stacks, Head(nodes_to_visit).move_history)} : Played(r)
    /\ UNCHANGED <<game_hash, arg, ret>>

\* global_solve, lines 504-511: solve has returned results, or raised.
Solved(results) ==
    IF results.kind = "raise"
    THEN /\ pc' = "raised"
         /\ exception' = results.exception
         /\ nodes_to_visit' = PopLeft(nodes_to_visit)
    ELSE /\ pc' = pc
         /\ exception' = exception
         /\ nodes_to_visit' =
              IF results.kind = "None"
              THEN PopLeft(nodes_to_visit)
              ELSE With(PopLeft(nodes_to_visit) \o results.results,
                        LAMBDA nodes : SortNodes(nodes))

\* One iteration that asks the popped game for its children, lines 473-512.
LoopSolve ==
    /\ pc = "solving"
    /\ nodes_to_visit # <<>>
    /\ \E hash \in {Hash(Head(nodes_to_visit).stacks)} :
          /\ ~Visited(hash, visited_nodes)
          /\ visited_nodes' = Append(visited_nodes, hash)
    /\ ~is_complete(Head(nodes_to_visit).stacks)
    /\ current' = <<Head(nodes_to_visit)>>
    /\ \E results \in {solve(Head(nodes_to_visit))} : Solved(results)
    /\ UNCHANGED <<game_hash, self, result_moves, arg, ret>>

\* The loop ends with the deque empty: the game cannot be solved, lines 514-517.
LoopExit ==
    /\ pc = "solving"
    /\ nodes_to_visit = <<>>
    /\ pc' = "unsolvable"
    /\ result_moves' = <<>>
    /\ UNCHANGED <<game_hash, self, nodes_to_visit, visited_nodes, current,
                   exception, arg, ret>>

Next ==
    \/ ExactSetupRaise
    \/ ExactSetup
    \/ GlobalSolveBegin
    \/ LoopVisited
    \/ LoopComplete
    \/ LoopSolve
    \/ LoopExit

Spec == Init /\ [][Next]_vars

\* The program runs on: no step that can be taken is put off for ever.
FairSpec == Spec /\ WF_vars(Next)

(***************************************************************************)
(* Stack.compatible on its own                                             *)
(***************************************************************************)
\* The card codes of the game: 4 face cards, and the ranks 10 ("0") to 6 in
\* black and red.
FaceCodes == {<<"H", "H">>, <<"S", "S">>, <<"C", "C">>, <<"D", "D">>}

NumericCodes == {<<n, c>> : n \in {"0", "9", "8", "7", "6"}, c \in {"B", "R"}}

ValidCodes == FaceCodes \cup NumericCodes

InitCompatible ==
    /\ pc = "compatible_call"
    /\ arg \in ValidCodes \X ValidCodes
    /\ ret = <<>>
    /\ game_hash = <<>>
    /\ self = NewGame(DefaultCardStacks, DefaultFreecells, DefaultMaxDepth)
    /\ nodes_to_visit = <<>>
    /\ visited_nodes = <<>>
    /\ current = <<>>
    /\ result_moves = <<>>
    /\ exception = ""

\* Stack.compatible(top, bottom) returns.
CallCompatible ==
    /\ pc = "compatible_call"
    /\ ~CompatibleRaises(arg[1], arg[2])
    /\ ret' = <<compatible(arg[1], arg[2])>>
    /\ pc' = "compatible_return"
    /\ UNCHANGED <<game_hash, self, nodes_to_visit, visited_nodes, current,
                   result_moves, exception, arg>>

NextCompatible == CallCompatible

SpecCompatible == InitCompatible /\ [][NextCompatible]_vars

(***************************************************************************)
(* Game.hash on its own                                                    *)
(***************************************************************************)
\* States of a stack that the program makes: empty, holding cards, a freecell
\* empty and full, and a stack that a move has collapsed.
StackStates ==
    {NewStack("stack", FALSE),
     NewStack("freecell", FALSE),
     [NewStack("stack", FALSE) EXCEPT !.stack = << <<"9", "B">> >>],
     [NewStack("stack", FALSE) EXCEPT !.stack = << <<"9", "B">>, <<"8", "R">> >>],
     [NewStack("freecell", FALSE) EXCEPT !.stack = << <<"9", "B">> >>],
     [NewStack("stack", TRUE) EXCEPT !.stack = XMark, !.past_cards = <<"H", "H">>]}

\* The most stacks of a board that is hashed.
MaxStacks == 3

\* The orders in which n stacks can lie.
StackOrders(n) ==
    {p \in [1..n -> 1..n] : \A a, b \in 1..n : p[a] = p[b] => a = b}

\* The stacks in the order p.
Permuted(stacks, p) == [k \in 1..Len(stacks) |-> stacks[p[k]]]

InitHash ==
    /\ pc = "hash_call"
    /\ \E n \in 1..MaxStacks :
          \E stacks \in [1..n -> StackStates], p \in StackOrders(n) :
              arg = <<stacks, p>>
    /\ ret = <<>>
    /\ game_hash = <<>>
    /\ self = NewGame(DefaultCardStacks, DefaultFreecells, DefaultMaxDepth)
    /\ nodes_to_visit = <<>>
    /\ visited_nodes = <<>>
    /\ current = <<>>
    /\ result_moves = <<>>
    /\ exception = ""

\* Game.hash() returns, for a board and for the board with its stacks in
\* another order.
CallHash ==
    /\ pc = "hash_call"
    /\ ret' = <<Hash(arg[1]), Hash(Permuted(arg[1], arg[2]))>>
    /\ pc' = "hash_return"
    /\ UNCHANGED <<game_hash, self, nodes_to_visit, visited_nodes, current,
                   result_moves, exception, arg>>

NextHash == CallHash

SpecHash == InitHash /\ [][NextHash]_vars

(***************************************************************************)
(* What the claims speak of                                                *)
(***************************************************************************)
\* A stack token of an encoded board is well formed: a known marker, and then
\* nothing, or card codes of 2 symbols each (one at most in a freecell), or
\* the collapsed form with a rank that parses.
WellFormedToken(t) ==
    /\ t[1] \in {"S", "F"}
    /\ \/ Len(t) = 1
       \/ /\ t[2] = "X"
          /\ Len(t) >= 5
          /\ t[3] = "[" /\ t[Len(t)] = "]"
          /\ IntParses(Slice(t, 3, 5))
       \/ /\ t[2] # "X"
          /\ (Len(t) - 1) % 2 = 0
          /\ \A k \in 1..((Len(t) - 1) \div 2) : <<t[2 * k], t[2 * k + 1]>> \in ValidCodes
          /\ t[1] = "F" => Len(t) = 3

WellFormedHash(h) ==
    \A k \in 1..Len(SplitSlash(h)) : WellFormedToken(SplitSlash(h)[k])

\* exact_setup has built the board of game_hash.
Decoded == pc \in {"ready", "solving", "solved", "unsolvable", "raised"}
           /\ ~ExactSetupRaises(game_hash)

\* The program has ended, by a return or by an exception.
Ended == pc \in {"solved", "unsolvable", "raised"}

\* The last iteration popped a game that is complete (line 494).
CompletePopped ==
    /\ Ended
    /\ current # <<>>
    /\ is_complete(current[1].stacks)

\* The (origin, destination) pairs of the list that play_game returns.
MovePairs(fixed_moves) ==
    [k \in 1..Len(fixed_moves) |-> <<fixed_moves[k][1], fixed_moves[k][3]>>]

\* Visible cards count 1 each, a collapsed stack counts 4.
RECURSIVE TotalCards(_, _)
TotalCards(stacks, k) ==
    IF k > Len(stacks) THEN 0
    ELSE (IF stacks[k].stack = XMark THEN 4 ELSE Len(stacks[k].stack))
         + TotalCards(stacks, k + 1)

\* The moves replayed from the root board end without an illegal move, in a
\* complete board.
ReplaysToComplete(r) == r.exception = "" /\ is_complete(r.stacks)

\* C1: whenever the search ends on a complete board, the move history of that
\* board, replayed in order from the root board, consists of legal moves only
\* and ends in a complete board; the list returned lists exactly these moves,
\* and self is left as that board.
C1_SolutionReplays ==
    CompletePopped =>
        /\ ReplaysToComplete(PlayLoop(exact_setup(game_hash), current[1].move_history, 1, <<>>))
        /\ pc = "solved" =>
              /\ MovePairs(result_moves) = current[1].move_history
              /\ ReplaysToComplete(PlayLoop(exact_setup(game_hash), MovePairs(result_moves), 1, <<>>))
              /\ is_complete(self.stacks)

\* A solution of four moves or more has been returned.
C1_Witness == pc = "solved" /\ Len(result_moves) >= 4

\* C2: for a well-formed initial board that is not complete, a search that
\* ends without popping a complete board has returned the empty list; it has
\* not raised.
C2_UnsolvableReturnsEmpty ==
    (/\ Decoded
     /\ WellFormedHash(game_hash)
     /\ ~is_complete(exact_setup(game_hash))
     /\ Ended
     /\ ~CompletePopped)
    => (pc = "unsolvable" /\ result_moves = <<>> /\ exception = "")

\* C3: when the initial board is complete, the program ends with the empty
\* move list as a success, not with an exception and not as unsolvable.
C3_CompleteRootSucceeds ==
    (Decoded /\ is_complete(exact_setup(game_hash)) /\ Ended)
    => (pc = "solved" /\ result_moves = <<>> /\ exception = "")

\* The search is in its loop with games to visit.
Searching == pc = "solving" /\ nodes_to_visit # <<>>

\* C4: for every max_depth and every well-formed initial board, the loop of
\* the search halts: a complete board is popped or the deque becomes empty.
C4_SearchHalts ==
    (WellFormedHash(game_hash) /\ Searching) ~> (CompletePopped \/ nodes_to_visit = <<>>)

\* A search of five iterations or more has ended with the deque empty.
C4_Witness == pc = "unsolvable" /\ Len(visited_nodes) >= 5

\* Every game of a sequence holds as many cards as the root board.
SameTotal(games) ==
    \A k \in 1..Len(games) :
        TotalCards(games[k].stacks, 1) = TotalCards(exact_setup(game_hash), 1)

\* C5: every board that expansion or replay has made holds as many cards as
\* the root board, a visible card counting 1 and a collapsed stack 4.
C5_CardsConserved ==
    Decoded => SameTotal(nodes_to_visit) /\ SameTotal(current) /\ SameTotal(<<self>>)

\* A board in which a move has collapsed a stack waits in the deque.
C5_Witness ==
    /\ pc = "solving"
    /\ \E k \in 1..Len(nodes_to_visit) :
          /\ nodes_to_visit[k].depth > 0
          /\ \E m \in 1..Len(nodes_to_visit[k].stacks) :
                nodes_to_visit[k].stacks[m].stack = XMark

\* C6: the hash of a board is the same for every order of its stacks.
C6_HashIgnoresStackOrder ==
    pc = "hash_return" => ret[1] = ret[2]

\* Three different stacks in another order than the board's have been hashed.
C6_Witness ==
    /\ pc = "hash_return"
    /\ Len(arg[1]) = 3
    /\ \A a, b \in 1..3 : a # b => arg[1][a] # arg[1][b]
    /\ arg[2] = <<3, 1, 2>>
    /\ ret[1] = ret[2]

\* Decoding the hash of these stacks succeeds and gives a board of the same
\* hash.
RoundTrips(stacks) ==
    \E hash \in {Hash(stacks)} :
        /\ ~ExactSetupRaises(hash)
        /\ Hash(exact_setup(hash)) = hash

\* C7: for every board the search reaches, boards with collapsed stacks among
\* them, decoding the board's hash succeeds and gives a board of the same
\* hash.
C7_ReachedBoardsRoundTrip ==
    pc = "solving" =>
        \A k \in 1..Len(nodes_to_visit) : RoundTrips(nodes_to_visit[k].stacks)

\* What the rule of the game says of two valid card codes: bottom goes on top
\* iff both are face cards of one suit, or both are number cards, bottom one
\* lower than top and of the other colour.
RankOf(code) ==
    CASE code[1] = "0" -> 10
      [] code[1] = "9" -> 9
      [] code[1] = "8" -> 8
      [] code[1] = "7" -> 7
      [] code[1] = "6" -> 6

RuleCompatible(top, bottom) ==
    \/ top \in FaceCodes /\ bottom \in FaceCodes /\ top[2] = bottom[2]
    \/ /\ top \in NumericCodes /\ bottom \in NumericCodes
       /\ RankOf(bottom) = RankOf(top) - 1
       /\ top[2] # bottom[2]

\* C8: for every pair of valid card codes, compatible(top, bottom) is true iff
\* both are face cards of the same suit, or both are number cards with bottom
\* one lower than top and of the other colour; same-suit face pairs are
\* compatible in either order, number pairs in one order at most, and a face
\* card and a number card never.
C8_CompatibleIsTheRule ==
    pc = "compatible_return" =>
        /\ (ret[1] = 1) <=> RuleCompatible(arg[1], arg[2])
        /\ ret[1] \in {0, 1}
        /\ (arg[1] \in FaceCodes /\ arg[2] \in FaceCodes)
              => compatible(arg[2], arg[1]) = ret[1]
        /\ (arg[1] \in NumericCodes /\ arg[2] \in NumericCodes /\ ret[1] = 1)
              => compatible(arg[2], arg[1]) = 0
        /\ ((arg[1] \in FaceCodes) # (arg[2] \in FaceCodes)) => ret[1] = 0

\* The 8 of red has been found to go on the 9 of black.
C8_Witness ==
    /\ pc = "compatible_return"
    /\ arg = << <<"9", "B">>, <<"8", "R">> >>
    /\ ret = <<1>>

\* A stack token is malformed in one of the three ways: an unknown marker, a
\* card code that is not of 2 symbols, a collapsed rank that does not parse.
MalformedToken(t) ==
    \/ t[1] \notin {"S", "F"}
    \/ Len(t) > 1 /\ t[2] # "X" /\ (Len(t) - 1) % 2 # 0
    \/ Len(t) > 1 /\ t[2] = "X" /\ ~IntParses(Slice(t, 3, 5))

Malformed(h) ==
    \E tokens \in {SplitSlash(h)} : \E k \in 1..Len(tokens) : MalformedToken(tokens[k])

\* C9: on a malformed encoded board decoding fails at once: no board is
\* built from it and no step of the search is taken.
C9_MalformedFailsAtDecode ==
    Malformed(game_hash) =>
        /\ pc \in {"constructed", "raised"}
        /\ nodes_to_visit = <<>> /\ visited_nodes = <<>> /\ current = <<>>
        /\ self.stacks = NewGame(DefaultCardStacks, DefaultFreecells, DefaultMaxDepth).stacks

\* The stack holds four copies of one face card and nothing else.
FourOfOneFace(stack) ==
    /\ Len(stack) = 4
    /\ \E f \in FaceCodes : \A k \in 1..4 : stack[k] = f

\* C10: in a decoded board of one stack of four copies of a face card and
\* empty stacks otherwise, that stack is complete and its hash has the
\* collapsed form.
C10_FourFacesBuiltCollapsed ==
    pc = "ready" =>
        \A k \in 1..Len(self.stacks) :
            (/\ FourOfOneFace(self.stacks[k].stack)
             /\ \A m \in 1..Len(self.stacks) : m # k => self.stacks[m].stack = <<>>)
            => /\ StackIsComplete(self.stacks[k]) = 1
               /\ StackHash(self.stacks[k])[2] = "X"

\* What the rules say of a board, in the words of the claims and on valid card
\* codes: the 1-based place at which the top run of a list of cards starts,
\* the longest run of cards at its end in which each card goes on the one
\* before it.
RuleRunStart(stack) ==
    CHOOSE a \in 1..Len(stack) :
        /\ \A k \in a..(Len(stack) - 1) : RuleCompatible(stack[k], stack[k + 1])
        /\ (a > 1 => ~RuleCompatible(stack[a - 1], stack[a]))

\* The destination accepts a card: it is not locked, not a full single-card
\* stack, and the card goes on the card on top of it if it has one.
RuleAccepts(dest, card) ==
    /\ ~dest.locked
    /\ ~(dest.card_type = "freecell" /\ dest.stack # <<>>)
    /\ (dest.stack # <<>> => RuleCompatible(dest.stack[Len(dest.stack)], card))

\* The move before this one went from dst to src.
UndoesLastMove(g, src, dst) ==
    g.move_history # <<>> /\ g.move_history[Len(g.move_history)] = <<dst, src>>

\* The pair (src, dst) of 0-based indices is a move of the game g.
RuleMove(g, src, dst) ==
    /\ src # dst
    /\ ~g.stacks[dst + 1].locked
    /\ ~UndoesLastMove(g, src, dst)
    /\ ~g.stacks[src + 1].locked
    /\ g.stacks[src + 1].stack # <<>>
    /\ RuleAccepts(g.stacks[dst + 1],
                   g.stacks[src + 1].stack[RuleRunStart(g.stacks[src + 1].stack)])

\* moves lists exactly the moves of g, by destination and then by source.
ListsRuleMoves(g, moves) ==
    /\ \A src, dst \in 0..(Len(g.stacks) - 1) :
          RuleMove(g, src, dst) <=> \E k \in 1..Len(moves) : moves[k] = <<src, dst>>
    /\ \A a, b \in 1..Len(moves) :
          a < b => \/ moves[a][2] < moves[b][2]
                   \/ moves[a][2] = moves[b][2] /\ moves[a][1] < moves[b][1]

\* src is an unlocked stack with cards and dst another stack, empty and
\* unlocked.
EmptyReceptor(g, src, dst) ==
    /\ src # dst
    /\ ~g.stacks[src + 1].locked /\ g.stacks[src + 1].stack # <<>>
    /\ ~g.stacks[dst + 1].locked /\ g.stacks[dst + 1].stack = <<>>

\* Every move from a stack with cards to an empty receptor is listed, but for
\* the one that undoes the last move.
ListsReceptorMoves(g, moves) ==
    \A src, dst \in 0..(Len(g.stacks) - 1) :
        (EmptyReceptor(g, src, dst) /\ ~UndoesLastMove(g, src, dst))
        => \E k \in 1..Len(moves) : moves[k] = <<src, dst>>

\* The search runs on a well-formed board.
WellFormedSearch == pc = "solving" /\ game_hash \in WellFormedHashes

\* The game g of the deque has just been put there: it is the root, or a child
\* of the game that the last iteration popped.  Every game of the deque is new
\* in the state in which it enters the deque.
IsNew(g) ==
    \/ current = <<>>
    \/ /\ g.depth = current[1].depth + 1
       /\ SubSeq(g.move_history, 1, Len(g.move_history) - 1) = current[1].move_history

\* The places in the deque of the games that are new.
NewGames == {n \in 1..Len(nodes_to_visit) : IsNew(nodes_to_visit[n])}

\* C11: enumerate_moves returns exactly the pairs (source, destination) of
\* different stacks with the destination not locked, the pair not the inverse
\* of the last recorded move, the source unlocked and not empty, and the
\* destination accepting the bottom card of the source's top run, ordered by
\* destination and then by source; so a stack with cards has a move to every
\* empty unlocked receptor, unless that move undoes the last one.
C11_EnumerateMovesExact ==
    WellFormedSearch =>
        \A n \in NewGames :
            \E moves \in {enumerate_moves(nodes_to_visit[n])} :
                /\ ListsRuleMoves(nodes_to_visit[n], moves)
                /\ ListsReceptorMoves(nodes_to_visit[n], moves)

\* C11 as stated: a stack with cards always has a move to an empty unlocked
\* receptor.
C11_ReceptorAlwaysOpen ==
    WellFormedSearch =>
        \A n \in NewGames :
            \A src, dst \in 0..(Len(nodes_to_visit[n].stacks) - 1) :
                EmptyReceptor(nodes_to_visit[n], src, dst)
                => \E k \in 1..Len(enumerate_moves(nodes_to_visit[n])) :
                       enumerate_moves(nodes_to_visit[n])[k] = <<src, dst>>

\* A game waits in the deque that has moves, and in which the move back to
\* the stack just emptied is left out.
C11_Witness ==
    /\ WellFormedSearch
    /\ \E n \in NewGames :
          /\ enumerate_moves(nodes_to_visit[n]) # <<>>
          /\ \E src, dst \in 0..(Len(nodes_to_visit[n].stacks) - 1) :
                /\ EmptyReceptor(nodes_to_visit[n], src, dst)
                /\ UndoesLastMove(nodes_to_visit[n], src, dst)

\* The message of the exception that resolve_move_from and resolve_move_to
\* raise on a move that is not legal.
IllegalMove == "Trying to force illegal move"

\* Every move that enumerate_moves lists for g resolves without that exception.
MovesResolve(g, moves) ==
    \A k \in 1..Len(moves) : ResolveMove(g.stacks, moves[k]).exception # IllegalMove

\* C12: no move that enumerate_moves lists fails a legality test when it is
\* applied: neither in the expansion of a game reached from a well-formed
\* root nor in the replay of a winning move history.
C12_EnumeratedMovesLegal ==
    /\ game_hash \in WellFormedHashes => exception # IllegalMove
    /\ WellFormedSearch =>
          \A n \in NewGames :
              \E moves \in {enumerate_moves(nodes_to_visit[n])} :
                  MovesResolve(nodes_to_visit[n], moves)

\* A listed move takes the top card of a run of two cards or more to a
\* single-card stack, and resolves.
C12_Witness ==
    /\ WellFormedSearch
    /\ \E n \in NewGames :
          \E moves \in {enumerate_moves(nodes_to_visit[n])} :
              \E k \in 1..Len(moves) :
                  /\ nodes_to_visit[n].stacks[moves[k][2] + 1].card_type = "freecell"
                  /\ Len(which_cards_moving(nodes_to_visit[n].stacks[moves[k][1] + 1])) >= 2
                  /\ ResolveMove(nodes_to_visit[n].stacks, moves[k]).exception = ""

\* The hash h is in the list l of hashes.
InList(h, l) == \E k \in 1..Len(l) : l[k] = h

\* The list l holds no hash twice.
NoHashTwice(l) == \A a, b \in 1..Len(l) : l[a] = l[b] => a = b

\* What one iteration of the loop does with the game it pops, of hash h: a
\* game whose hash is in visited_nodes is dropped, with no test and no
\* children; the hash of any other game is put in visited_nodes.
PoppedOnce(h) ==
    IF InList(h, visited_nodes)
    THEN /\ visited_nodes' = visited_nodes
         /\ nodes_to_visit' = Tail(nodes_to_visit)
         /\ pc' = pc /\ self' = self /\ result_moves' = result_moves
    ELSE /\ visited_nodes' = Append(visited_nodes, h)
         /\ InList(h, visited_nodes')

\* C13: within one search a game is tested for completion and expanded only
\* if its hash is not yet in visited_nodes, the hash is put there before the
\* test, and visited_nodes never shrinks; so no hash is expanded twice.
C13_VisitedOnce ==
    [][/\ Searching => PoppedOnce(Hash(Head(nodes_to_visit).stacks))
       /\ SubSeq(visited_nodes', 1, Len(visited_nodes)) = visited_nodes
       /\ NoHashTwice(visited_nodes')]_vars

\* The last iteration dropped a game whose hash was in visited_nodes.
C13_Witness ==
    /\ pc = "solving"
    /\ current # <<>>
    /\ Len(visited_nodes) >= 3
    /\ Hash(current[1].stacks) # visited_nodes[Len(visited_nodes)]
    /\ InList(Hash(current[1].stacks), visited_nodes)

\* The games of the list l are in descending order of their scores.
DescendingScores(l) ==
    \A k \in 1..(Len(l) - 1) : get_score(l[k], 0) >= get_score(l[k + 1], 0)

\* The first game of the list l has a score at least that of every other.
HeadIsBest(l) ==
    \A k \in 2..Len(l) : get_score(l[1], 0) >= get_score(l[k], 0)

\* C14: after every expansion that yields children the whole deque is in
\* descending order of score, so at every pop the game popped has a score at
\* least that of every game that stays in the deque.
C14_FrontierByScore ==
    pc = "solving" =>
        /\ DescendingScores(nodes_to_visit)
        /\ nodes_to_visit # <<>> => HeadIsBest(nodes_to_visit)

\* An expansion has left four games or more in the deque, of different scores,
\* children of different games among them.
C14_Witness ==
    /\ pc = "solving"
    /\ Len(nodes_to_visit) >= 4
    /\ get_score(nodes_to_visit[1], 0) > get_score(nodes_to_visit[Len(nodes_to_visit)], 0)
    /\ \E a, b \in 1..Len(nodes_to_visit) :
          nodes_to_visit[a].depth # nodes_to_visit[b].depth

\* No unlocked stack of the board holds exactly four copies of one face card.
NoOpenFour(stacks) ==
    \A k \in 1..Len(stacks) : ~(~stacks[k].locked /\ FourOfOneFace(stacks[k].stack))

\* The cards that lie on the destination of the last move of the child, once
\* the move has put them there: those of the parent's destination, and on them
\* as many of the top cards of the parent's origin as the child's origin lost.
DestinationAfter(parent, child, src, dst) ==
    parent.stacks[dst + 1].stack
    \o SubSeq(parent.stacks[src + 1].stack,
              Len(child.stacks[src + 1].stack) + 1, Len(parent.stacks[src + 1].stack))

\* A stack of the child that its last move turned into the collapsed marker
\* held exactly four copies of one face card.
CollapsedOnlyFour(parent, child) ==
    \A k \in 1..Len(child.stacks) :
        (child.stacks[k].stack = XMark /\ parent.stacks[k].stack # XMark)
        => /\ child.stacks[k].locked
           /\ k = child.move_history[Len(child.move_history)][2] + 1
           /\ FourOfOneFace(DestinationAfter(parent, child,
                                child.move_history[Len(child.move_history)][1], k - 1))

\* C15: a move made on a board in which no unlocked stack holds exactly four
\* copies of one face card gives such a board again, and a move turns a stack
\* into the locked collapsed marker only when the stack holds exactly four
\* copies of one face card.
C15_CollapseKept ==
    (WellFormedSearch /\ current # <<>>) =>
        \A n \in NewGames :
            /\ NoOpenFour(current[1].stacks) => NoOpenFour(nodes_to_visit[n].stacks)
            /\ CollapsedOnlyFour(current[1], nodes_to_visit[n])

\* No move of the list has a locked stack of g as its origin or destination.
NoLockedEnd(g, moves) ==
    \A k \in 1..Len(moves) :
        /\ ~g.stacks[moves[k][1] + 1].locked
        /\ ~g.stacks[moves[k][2] + 1].locked

\* Every locked stack of the parent is the same in the child: locked, with the
\* same remembered cards.
LockedStay(parent, child) ==
    \A k \in 1..Len(parent.stacks) :
        parent.stacks[k].locked => child.stacks[k] = parent.stacks[k]

\* C16: a locked stack is never the origin or the destination of a move that
\* enumerate_moves lists, so a stack that has collapsed stays locked, with the
\* same remembered rank, in every board that the search derives.
C16_LockedStacksStay ==
    WellFormedSearch =>
        \A n \in NewGames :
            /\ ~EnumerateMovesRaises(nodes_to_visit[n])
                  => NoLockedEnd(nodes_to_visit[n], enumerate_moves(nodes_to_visit[n]))
            /\ current # <<>> => LockedStay(current[1], nodes_to_visit[n])

\* A game with a stack that a move collapsed has been expanded: its children
\* wait in the deque, and they have moves.
C16_Witness ==
    /\ WellFormedSearch
    /\ current # <<>>
    /\ \E k \in 1..Len(current[1].stacks) :
          /\ current[1].stacks[k].locked
          /\ current[1].stacks[k].past_cards \in FaceCodes
          /\ \E n \in NewGames :
                /\ nodes_to_visit[n].stacks[k] = current[1].stacks[k]
                /\ enumerate_moves(nodes_to_visit[n]) # <<>>

\* Every single-card stack (freecell) of the board holds one card at most; a
\* collapsed stack holds none.
CellsHoldOne(stacks) ==
    \A k \in 1..Len(stacks) :
        (stacks[k].card_type = "freecell" /\ stacks[k].stack # XMark)
        => Len(stacks[k].stack) <= 1

\* C17: in every board that the search reaches from a root whose single-card
\* stacks hold one card at most each, every single-card stack holds one card
\* at most.
C17_CellsHoldOneCard ==
    (game_hash \in WellFormedHashes /\ Decoded /\ CellsHoldOne(exact_setup(game_hash))) =>
        /\ \A n \in NewGames : CellsHoldOne(nodes_to_visit[n].stacks)
        /\ CellsHoldOne(self.stacks)

\* A move has put in a freecell the top card of a run of two cards or more.
C17_Witness ==
    /\ WellFormedSearch
    /\ current # <<>>
    /\ \E n \in NewGames :
          \E src, dst \in 1..Len(current[1].stacks) :
              /\ nodes_to_visit[n].move_history[Len(nodes_to_visit[n].move_history)]
                    = <<src - 1, dst - 1>>
              /\ current[1].stacks[dst].card_type = "freecell"
              /\ Len(which_cards_moving(current[1].stacks[src])) >= 2
              /\ Len(nodes_to_visit[n].stacks[dst].stack) = 1

\* The top run of a list of cards by the rule: its longest end in which each
\* card goes on the one before it.
RuleTopRun(stack) == SubSeq(stack, RuleRunStart(stack), Len(stack))

\* The cards that a move to the stack dest has to carry from the list of cards
\* origin: the top run, or the top card alone when dest takes one card only.
RuleCarried(origin, dest) ==
    IF dest.card_type = "freecell" THEN <<origin[Len(origin)]>> ELSE RuleTopRun(origin)

\* The child differs from the parent by the move (src, dst) of the cards
\* carried: they have left the origin, they lie on the destination in the same
\* order (or have collapsed it), and every other stack is the parent's.
MovedAsRuled(parent, child, src, dst, carried) ==
    /\ child.stacks[src].stack
          = SubSeq(parent.stacks[src].stack, 1, Len(parent.stacks[src].stack) - Len(carried))
    /\ \/ child.stacks[dst].stack = parent.stacks[dst].stack \o carried
       \/ /\ child.stacks[dst].stack = XMark
          /\ FourOfOneFace(parent.stacks[dst].stack \o carried)
    /\ \A k \in 1..Len(parent.stacks) :
          (k # src /\ k # dst) => child.stacks[k] = parent.stacks[k]
    /\ Len(child.stacks) = Len(parent.stacks)

\* The child was made from the parent by its last move, as the rule says.
ChildAsRuled(parent, child) ==
    \E move \in {child.move_history[Len(child.move_history)]} :
        MovedAsRuled(parent, child, move[1] + 1, move[2] + 1,
                     RuleCarried(parent.stacks[move[1] + 1].stack, parent.stacks[move[2] + 1]))

\* C18: a child that the expansion makes for a move (source, destination)
\* holds on its destination exactly the top run of the source, in the same
\* order, when the destination is a stack, and exactly the top card of the
\* source when the destination takes one card only; every other stack is as
\* in the parent.
C18_ChildMovesTheRun ==
    (WellFormedSearch /\ current # <<>>) =>
        \A n \in NewGames : ChildAsRuled(current[1], nodes_to_visit[n])

\* A run of two cards or more has been moved onto a stack that held cards.
C18_Witness ==
    /\ WellFormedSearch
    /\ current # <<>>
    /\ \E n \in NewGames :
          \E move \in {nodes_to_visit[n].move_history[Len(nodes_to_visit[n].move_history)]} :
              /\ current[1].stacks[move[2] + 1].card_type = "stack"
              /\ current[1].stacks[move[2] + 1].stack # <<>>
              /\ Len(RuleTopRun(current[1].stacks[move[1] + 1].stack)) >= 2
              /\ Len(nodes_to_visit[n].stacks[move[2] + 1].stack)
                    = Len(current[1].stacks[move[2] + 1].stack)
                      + Len(RuleTopRun(current[1].stacks[move[1] + 1].stack))

\* The places of the list nodes that hold a game made from parent by this move:
\* one level deeper, with the parent's history and then the move.
ChildrenBy(parent, move, nodes) ==
    {n \in 1..Len(nodes) :
        /\ nodes[n].depth = parent.depth + 1
        /\ nodes[n].move_history = Append(parent.move_history, move)}

\* The places of the list nodes that hold a game one move after parent.
ChildrenIn(parent, nodes) ==
    {n \in 1..Len(nodes) :
        /\ Len(nodes[n].move_history) = Len(parent.move_history) + 1
        /\ SubSeq(nodes[n].move_history, 1, Len(parent.move_history)) = parent.move_history}

\* The claim's two cases without children: the game is deeper than the
\* cutoff, or it is below the root and has no move.
YieldsNothing(g, moves) ==
    \/ g.depth > g.max_depth
    \/ (moves = <<>> /\ g.depth > 0)

\* The deque after is the deque before without its head g, and with the
\* children the claim gives g for these moves: none in the two cases, else one
\* for each move, and no other.
ExpandedInto(g, moves, before, after) ==
    IF YieldsNothing(g, moves)
    THEN /\ Len(after) = Len(before) - 1
         /\ ChildrenIn(g, after) = {}
    ELSE /\ Len(after) = Len(before) - 1 + Len(moves)
         /\ Cardinality(ChildrenIn(g, after)) = Len(moves)
         /\ \A k \in 1..Len(moves) :
               Cardinality(ChildrenBy(g, moves[k], after)) = 1

\* The step is the one of the search that asks the head of the deque for its
\* children: the head is new to visited_nodes and is not complete.
Expands ==
    /\ WellFormedSearch
    /\ nodes_to_visit # <<>>
    /\ visited_nodes' # visited_nodes
    /\ ~is_complete(Head(nodes_to_visit).stacks)

\* C19: when the search asks a game for its children, none enters the deque
\* if the game is deeper than the cutoff or is below the root without moves;
\* otherwise exactly one child for each move of enumerate_moves enters it, one
\* level deeper than the game and with the game's history and then that move.
C19_OneChildPerMove ==
    [][Expands =>
          \E moves \in {enumerate_moves(Head(nodes_to_visit))} :
              ExpandedInto(Head(nodes_to_visit), moves, nodes_to_visit, nodes_to_visit')]_vars

\* A game below the root has been asked and its two or more children are in
\* the deque.
C19_Witness ==
    /\ WellFormedSearch
    /\ current # <<>>
    /\ current[1].depth >= 1
    /\ current[1].depth <= current[1].max_depth
    /\ Cardinality(ChildrenIn(current[1], nodes_to_visit)) >= 2

\* A game deeper than the cutoff has been popped, new to visited_nodes.
C19_CutoffReached ==
    /\ WellFormedSearch
    /\ current # <<>>
    /\ current[1].depth > current[1].max_depth
    /\ visited_nodes # <<>>
    /\ visited_nodes[Len(visited_nodes)] = Hash(current[1].stacks)
    /\ ~is_complete(current[1].stacks)

\* A game below the root without moves has been popped, new to visited_nodes.
C19_DeadReached ==
    /\ WellFormedSearch
    /\ current # <<>>
    /\ current[1].depth > 0
    /\ current[1].depth <= current[1].max_depth
    /\ visited_nodes # <<>>
    /\ visited_nodes[Len(visited_nodes)] = Hash(current[1].stacks)
    /\ ~is_complete(current[1].stacks)
    /\ enumerate_moves(current[1]) = <<>>

\* What the scoring rule gives one stack: 20 when it is collapsed or holds a
\* whole run of number cards; 10 when it is an empty stack that takes runs; 5
\* less the number of cards under the top run when it is such a stack with
\* cards; 0 otherwise.
RuleStackScore(s) ==
    IF s.stack = XMark \/ s.stack = CompleteRed \/ s.stack = CompleteBlack THEN 20
    ELSE IF s.card_type # "stack" THEN 0
    ELSE IF s.stack = <<>> THEN 10
    ELSE 5 - (RuleRunStart(s.stack) - 1)

\* The sum of the rule over the stacks from the k-th on.
RECURSIVE RuleScoreFrom(_, _)
RuleScoreFrom(stacks, k) ==
    IF k > Len(stacks) THEN 0
    ELSE RuleStackScore(stacks[k]) + RuleScoreFrom(stacks, k + 1)

\* A call of get_score on the game g leaves the value in g.score and returns
\* it; a second call on the game as the first left it returns the same.
ScoresByRule(g) ==
    \E first \in {get_score(g, 0)} :
        /\ first = RuleScoreFrom(g.stacks, 1)
        /\ get_score([g EXCEPT !.score = first], 0) = first

\* C20: for every game that enters the deque, get_score returns, on a first
\* and on a second call, the sum over the game's stacks of 20 for a complete or
\* collapsed stack, 10 for an empty stack that takes runs, 5 less the number of
\* cards under the top run for such a stack with cards, and 0 for any other.
C20_ScoreIsTheSum ==
    WellFormedSearch =>
        \A n \in NewGames : ScoresByRule(nodes_to_visit[n])

\* A child in the deque has a stack with cards under its top run and an empty
\* stack, and its score is the sum.
C20_Witness ==
    /\ WellFormedSearch
    /\ current # <<>>
    /\ \E n \in NewGames :
          /\ \E k \in 1..Len(nodes_to_visit[n].stacks) :
                /\ nodes_to_visit[n].stacks[k].card_type = "stack"
                /\ nodes_to_visit[n].stacks[k].stack # <<>>
                /\ RuleStackScore(nodes_to_visit[n].stacks[k]) < 5
          /\ \E k \in 1..Len(nodes_to_visit[n].stacks) :
                RuleStackScore(nodes_to_visit[n].stacks[k]) = 10
          /\ get_score(nodes_to_visit[n], 0) = RuleScoreFrom(nodes_to_visit[n].stacks, 1)

\* A child in the deque has an empty stack and a complete or collapsed stack.
C20_CompleteScored ==
    /\ WellFormedSearch
    /\ current # <<>>
    /\ \E n \in NewGames :
          /\ \E k \in 1..Len(nodes_to_visit[n].stacks) :
                RuleStackScore(nodes_to_visit[n].stacks[k]) = 10
          /\ \E k \in 1..Len(nodes_to_visit[n].stacks) :
                RuleStackScore(nodes_to_visit[n].stacks[k]) = 20

\* C21: after a search that ends with a solution, the stacks of the root game
\* (their cards and their lock flags) are those that exact_setup built before
\* the search: the replay has worked on a copy.
C21_RootKeptByReplay ==
    pc = "solved" => self.stacks = exact_setup(game_hash)

\* The rows that the claim gives the move (src, dst) on these stacks, both
\* 1-based places here: the 0-based row of the deepest card carried, as the
\* origin stood before the move, and the row of the top card of the
\* destination before the move, 0 when it had no card.
RuleSourceRow(stacks, src, dst) ==
    Len(stacks[src].stack) - Len(RuleCarried(stacks[src].stack, stacks[dst]))

RuleDestinationRow(stacks, dst) ==
    IF stacks[dst].stack = <<>> THEN 0 ELSE Len(stacks[dst].stack) - 1

\* The entries of fixed from the k-th on hold the rows of the claim, on the
\* stacks as each move finds them.
RECURSIVE RowsAsRuled(_, _, _)
RowsAsRuled(stacks, fixed, k) ==
    IF k > Len(fixed) THEN TRUE
    ELSE /\ fixed[k][2] = RuleSourceRow(stacks, fixed[k][1] + 1, fixed[k][3] + 1)
         /\ fixed[k][2] >= 0
         /\ fixed[k][4] = RuleDestinationRow(stacks, fixed[k][3] + 1)
         /\ RowsAsRuled(ResolveMove(stacks, <<fixed[k][1], fixed[k][3]>>).stacks, fixed, k + 1)

\* C22: every entry (source, source row, destination, destination row) of the
\* list that the replay returns has for source row the row of the deepest
\* card moved as the source stood before the move, never negative, and for
\* destination row the row of the destination's top card before the move, 0
\* when the destination had no card.
C22_ReplayRows ==
    pc = "solved" => RowsAsRuled(exact_setup(game_hash), result_moves, 1)

\* The destination rows alone are those of the claim.
RECURSIVE DestinationRowsAsRuled(_, _, _)
DestinationRowsAsRuled(stacks, fixed, k) ==
    IF k > Len(fixed) THEN TRUE
    ELSE /\ fixed[k][4] = RuleDestinationRow(stacks, fixed[k][3] + 1)
         /\ DestinationRowsAsRuled(ResolveMove(stacks, <<fixed[k][1], fixed[k][3]>>).stacks,
                                   fixed, k + 1)

C22_DestinationRowsHold ==
    pc = "solved" => DestinationRowsAsRuled(exact_setup(game_hash), result_moves, 1)

\* The rule lets a move go from the src-th to the dst-th of these stacks: the
\* source is not locked and has cards, and the destination accepts the first
\* of the cards carried, the top run or, to a stack of one card, the top card.
RuleLegal(stacks, src, dst) ==
    /\ src # dst
    /\ ~stacks[src].locked
    /\ stacks[src].stack # <<>>
    /\ RuleAccepts(stacks[dst], RuleCarried(stacks[src].stack, stacks[dst])[1])

\* The boards one rule-legal move away from these stacks.
RuleSuccessors(stacks) ==
    {ResolveMove(stacks, <<m[1] - 1, m[2] - 1>>).stacks :
        m \in {p \in (1..Len(stacks)) \X (1..Len(stacks)) : RuleLegal(stacks, p[1], p[2])}}

\* A complete board lies within n rule-legal moves of a board of frontier, the
\* boards found last; seen holds the boards found so far.
RECURSIVE CompleteWithin(_, _, _)
CompleteWithin(frontier, seen, n) ==
    \/ \E b \in frontier : is_complete(b)
    \/ /\ n > 0
       /\ frontier # {}
       /\ \E next \in {(UNION {RuleSuccessors(b) : b \in frontier}) \ seen} :
             CompleteWithin(next, seen \cup next, n - 1)

\* C23: when the search reports that the game cannot be solved, no complete
\* board lies within max_depth + 1 rule-legal moves of the root board.
C23_UnsolvableWithinBound ==
    pc = "unsolvable" =>
        \E root \in {exact_setup(game_hash)} :
            ~CompleteWithin({root}, {root}, self.max_depth + 1)

\* The hashes of the games of a list.
HashesOf(nodes) == {Hash(nodes[n].stacks) : n \in 1..Len(nodes)}

\* The hashes of the children that solve builds for the game g; none when it
\* returns None.
ChildHashes(g) == HashesOf(solve(g).results)

\* The set of the entries of a list of hashes.
HashSet(l) == {l[n] : n \in 1..Len(l)}

\* The head of the deque is about to be discarded: its hash is in
\* visited_nodes.
Discarding ==
    /\ WellFormedSearch
    /\ nodes_to_visit # <<>>
    /\ Hash(Head(nodes_to_visit).stacks) \in HashSet(visited_nodes)
    /\ ~is_complete(Head(nodes_to_visit).stacks)

\* C24: two boards of one search with equal hashes have children with the same
\* set of hashes, so that no successor is lost with a board that is discarded
\* as visited: the board visited first under that hash was asked for its
\* children, and each of them is still in the deque or has its hash in
\* visited_nodes; the children of the discarded board therefore all have
\* their hashes among those of the deque and of visited_nodes.
C24_DiscardLosesNothing ==
    Discarding =>
        ChildHashes(Head(nodes_to_visit))
            \subseteq (HashSet(visited_nodes) \cup HashesOf(nodes_to_visit))

\* The depth of the game g counts the moves of its history and is one more
\* than the cutoff at most.
DepthInBound(g) ==
    /\ g.depth = Len(g.move_history)
    /\ g.depth <= g.max_depth + 1

\* C25: every game in the deque has a depth equal to the length of its
\* move_history and of max_depth + 1 at most, and a solution that the search
\* returns has max_depth + 1 moves at most.
C25_DepthBounded ==
    /\ pc = "solving" => \A n \in 1..Len(nodes_to_visit) : DepthInBound(nodes_to_visit[n])
    /\ pc = "solved" => Len(result_moves) <= self.max_depth + 1

\* A game one level below the cutoff is in the deque, or a solution of
\* max_depth + 1 moves has been returned.
C25_Witness ==
    \/ /\ pc = "solved"
       /\ Len(result_moves) = self.max_depth + 1
    \/ /\ pc = "solving"
       /\ self.max_depth >= 1
       /\ \E n \in 1..Len(nodes_to_visit) :
             /\ nodes_to_visit[n].depth = self.max_depth + 1
             /\ Len(nodes_to_visit[n].move_history) = self.max_depth + 1

====
